---- MODULE Spec2Model ----
(***************************************************************************)
(* Model of the `fill` crate (src/src/lib.rs): the `Fill::fill` loop over  *)
(* a `Read` implementor, and the `ChunkedReader` iterator built on it.     *)
(*                                                                         *)
(* One step of the model is one single-shot `read` of the loop in `fill`   *)
(* (together with the `match` on its result), or one of the surrounding    *)
(* calls: `chunked`, the entry and the exit of `next`, `into_inner`, and a *)
(* direct call of `fill` by the owner of the stream.                       *)
(***************************************************************************)
EXTENDS Integers, Sequences, FiniteSets, TLC

\* ---------------------------------------------------------------- bounds
MaxN == 3          \* longest stream content
MaxSize == 3       \* largest chunk size / buffer length
MaxIntr == 2       \* "interrupted" errors the stream may report in one fill
MaxFatal == 1      \* fatal errors the stream may report in a run
MaxAdvances == 5   \* advances recorded per ChunkedReader
MaxSpin == 4       \* reads followed on a stream that always reports "interrupted"

FatalKinds == {"PermissionDenied", "ConnectionReset"}

Min(a, b) == IF a < b THEN a ELSE b

\* The content of a stream of n bytes.  fill never looks at a byte, so the
\* i-th byte is given the value i: every byte is told from every other and
\* from the 0 of a fresh buffer.
Content(n) == [i \in 1..n |-> i]

\* ----------------------------------------------------------------- state
VARIABLES
  stream,      \* the Read implementor while its creator owns it: <<s>> or <<>>
  cr,          \* the ChunkedReader: <<[read, size]>> or <<>>
  pc,          \* "idle" | "loop" (inside fill) | "ret" (fill returned) | "panic"
  op,          \* the operation last called: "none" | "fill" | "next" |
               \* "chunked" | "into_inner"
  sizeArg,     \* the size argument of the last call of chunked
  buf,         \* the buffer fill works on
  bytes_read,  \* fill's local accumulator
  res,         \* fill's return value: <<[ok, n, e]>> or <<>>
  log,         \* the single-shot reads of the current / last fill call
  pos0,        \* stream position when the current / last fill call began
  items,       \* what the advances of the latest ChunkedReader returned,
               \* each with the stream position at its start and the bytes
               \* its fill accumulated
  crPos0,      \* stream position when the latest ChunkedReader was built
  fatalLeft    \* fatal errors the environment may still report

vars == <<stream, cr, pc, op, sizeArg, buf, bytes_read, res, log, pos0, items,
          crPos0, fatalLeft>>

\* The stream fill is reading from: the ChunkedReader's `read` field inside
\* next, the owner's stream in a direct call.
Cur == IF op = "next" THEN cr[1].read ELSE stream[1]

Remaining(s) == Len(s.data) - s.pos

\* ------------------------------------------------- the Read implementor
\* Counts a single-shot read may report for a slice of `len` bytes.  Within
\* the contract of read that is 0 for an empty slice or at end of stream and
\* otherwise 1..min(len, remaining); nothing stops an implementor from
\* breaking the contract and reporting more than the slice holds: len + 1.
OkCounts(s, len) ==
  (IF len = 0 \/ Remaining(s) = 0 THEN {0} ELSE 1..Min(len, Remaining(s)))
    \cup {len + 1}

\* Interrupted errors reported so far in the call.
Interrupts == Cardinality({i \in 1..Len(log) : log[i].e = "Interrupted"})

\* What a single-shot read may report.  A stuck stream reports "interrupted"
\* on every read (followed for MaxSpin reads); any other stream reports it
\* at most MaxIntr times in one fill.
Outcomes(s, len) ==
  IF s.stuck
    THEN IF Interrupts < MaxSpin
           THEN {[t |-> "err", n |-> 0, e |-> "Interrupted"]} ELSE {}
    ELSE
  {[t |-> "ok", n |-> k, e |-> "none"] : k \in OkCounts(s, len)}
    \cup (IF Interrupts < MaxIntr THEN {[t |-> "err", n |-> 0, e |-> "Interrupted"]} ELSE {})
    \cup (IF fatalLeft > 0 THEN {[t |-> "err", n |-> 0, e |-> k] : k \in FatalKinds}
          ELSE {})

\* Bytes a read reporting n actually copies into a slice of len bytes.
Copied(s, len, n) == Min(Min(n, len), Remaining(s))

\* The buffer after the stream copied w bytes into the slice starting at
\* offset `at`.
WriteAt(b, at, s, w) ==
  [i \in 1..Len(b) |->
     IF at < i /\ i <= at + w THEN s.data[s.pos + (i - at)] ELSE b[i]]

Zeros(n) == [i \in 1..n |-> 0]

\* ------------------------------------------------------------ Fill::fill
\* Variant: the whole buffer is handed to every read.
SliceWhole(b, br) == [at |-> 0, len |-> Len(b)]

\* Variant: the slice starts one byte before the unfilled suffix.
SliceOverlap(b, br) ==
  IF br > 0 THEN [at |-> br - 1, len |-> Len(b) - br + 1]
  ELSE [at |-> br, len |-> Len(b) - br]

\* `&mut buf[bytes_read..]`: the slice handed to read, as its offset in the
\* buffer and its length.
Slice(b, br) == [at |-> br, len |-> Len(b) - br]

\* Variant: fill returns after the first read that delivered bytes.
FillMatchOneRead(o, br) ==
  IF o.t = "err" THEN
    IF o.e = "Interrupted"
      THEN [go |-> "loop", br |-> br, r |-> <<>>]
      ELSE [go |-> "ret", br |-> br, r |-> <<[ok |-> FALSE, n |-> 0, e |-> o.e]>>]
  ELSE [go |-> "ret", br |-> br + o.n,
        r |-> <<[ok |-> TRUE, n |-> br + o.n, e |-> "none"]>>]

\* Variant: a zero-byte read makes fill return 0 instead of the accumulator.
FillMatchZero(o, br) ==
  IF o.t = "err" THEN
    IF o.e = "Interrupted"
      THEN [go |-> "loop", br |-> br, r |-> <<>>]
      ELSE [go |-> "ret", br |-> br, r |-> <<[ok |-> FALSE, n |-> 0, e |-> o.e]>>]
  ELSE IF o.n = 0
    THEN [go |-> "ret", br |-> br, r |-> <<[ok |-> TRUE, n |-> 0, e |-> "none"]>>]
    ELSE [go |-> "loop", br |-> br + o.n, r |-> <<>>]

\* Variant: every error is returned, the interrupted kind included.
FillMatchNoRetry(o, br) ==
  IF o.t = "err"
    THEN [go |-> "ret", br |-> br, r |-> <<[ok |-> FALSE, n |-> 0, e |-> o.e]>>]
  ELSE IF o.n = 0
    THEN [go |-> "ret", br |-> br, r |-> <<[ok |-> TRUE, n |-> br, e |-> "none"]>>]
    ELSE [go |-> "loop", br |-> br + o.n, r |-> <<>>]

\* Variant: a fatal error after some bytes returns the partial count.
FillMatchPartial(o, br) ==
  IF o.t = "err" THEN
    IF o.e = "Interrupted"
      THEN [go |-> "loop", br |-> br, r |-> <<>>]
    ELSE IF br > 0
      THEN [go |-> "ret", br |-> br, r |-> <<[ok |-> TRUE, n |-> br, e |-> "none"]>>]
      ELSE [go |-> "ret", br |-> br, r |-> <<[ok |-> FALSE, n |-> 0, e |-> o.e]>>]
  ELSE IF o.n = 0
    THEN [go |-> "ret", br |-> br, r |-> <<[ok |-> TRUE, n |-> br, e |-> "none"]>>]
    ELSE [go |-> "loop", br |-> br + o.n, r |-> <<>>]

\* Variant: after two interrupted reads the third is returned as an error.
FillMatchCapped(o, br) ==
  IF o.t = "err" THEN
    IF o.e = "Interrupted" /\ Interrupts < 2
      THEN [go |-> "loop", br |-> br, r |-> <<>>]
      ELSE [go |-> "ret", br |-> br, r |-> <<[ok |-> FALSE, n |-> 0, e |-> o.e]>>]
  ELSE IF o.n = 0
    THEN [go |-> "ret", br |-> br, r |-> <<[ok |-> TRUE, n |-> br, e |-> "none"]>>]
    ELSE [go |-> "loop", br |-> br + o.n, r |-> <<>>]

\* Variant: an interrupted read ends the call with the count so far.
FillMatchIntrEnds(o, br) ==
  IF o.t = "err" THEN
    IF o.e = "Interrupted"
      THEN [go |-> "ret", br |-> br, r |-> <<[ok |-> TRUE, n |-> br, e |-> "none"]>>]
      ELSE [go |-> "ret", br |-> br, r |-> <<[ok |-> FALSE, n |-> 0, e |-> o.e]>>]
  ELSE IF o.n = 0
    THEN [go |-> "ret", br |-> br, r |-> <<[ok |-> TRUE, n |-> br, e |-> "none"]>>]
    ELSE [go |-> "loop", br |-> br + o.n, r |-> <<>>]

\* Variant: a zero-byte read is retried like an interrupted one.
FillMatchZeroRetried(o, br) ==
  IF o.t = "err" THEN
    IF o.e = "Interrupted"
      THEN [go |-> "loop", br |-> br, r |-> <<>>]
      ELSE [go |-> "ret", br |-> br, r |-> <<[ok |-> FALSE, n |-> 0, e |-> o.e]>>]
  ELSE [go |-> "loop", br |-> br + o.n, r |-> <<>>]

\* The match on the result of read: what fill does next.
\*   [go |-> "loop" | "ret", br |-> new bytes_read, r |-> return value]
FillMatch(o, br) ==
  IF o.t = "err" THEN
    IF o.e = "Interrupted"
      THEN [go |-> "loop", br |-> br, r |-> <<>>]
      ELSE [go |-> "ret", br |-> br, r |-> <<[ok |-> FALSE, n |-> 0, e |-> o.e]>>]
  ELSE IF o.n = 0
    THEN [go |-> "ret", br |-> br, r |-> <<[ok |-> TRUE, n |-> br, e |-> "none"]>>]
    ELSE [go |-> "loop", br |-> br + o.n, r |-> <<>>]

SetCur(s) ==
  IF op = "next"
    THEN /\ cr' = <<[cr[1] EXCEPT !.read = s]>>
         /\ UNCHANGED stream
    ELSE /\ stream' = <<s>>
         /\ UNCHANGED cr

\* Variant: fill on an empty buffer returns Ok(0) at once, without a read.
FillCallEarlyOut ==
  /\ pc = "idle"
  /\ stream # <<>>
  /\ \E L \in 0..MaxSize :
       /\ buf' = Zeros(L)
       /\ bytes_read' = 0
       /\ pc' = IF L = 0 THEN "ret" ELSE "loop"
       /\ op' = "fill"
       /\ res' = IF L = 0 THEN <<[ok |-> TRUE, n |-> 0, e |-> "none"]>> ELSE <<>>
       /\ log' = <<>>
       /\ pos0' = stream[1].pos
  /\ items' = <<>>
  /\ crPos0' = 0
  /\ UNCHANGED <<stream, cr, sizeArg, fatalLeft>>

\* A direct call of fill by the owner of the stream, with a buffer of L bytes.
FillCall ==
  /\ pc = "idle"
  /\ stream # <<>>
  /\ \E L \in 0..MaxSize :
       /\ buf' = Zeros(L)
       /\ bytes_read' = 0
       /\ pc' = "loop"
       /\ op' = "fill"
       /\ res' = <<>>
       /\ log' = <<>>
       /\ pos0' = stream[1].pos
  /\ items' = <<>>
  /\ crPos0' = 0
  /\ UNCHANGED <<stream, cr, sizeArg, fatalLeft>>

\* One iteration of the loop: the single-shot read and the match on it.
ReadStep ==
  /\ pc = "loop"
  /\ bytes_read <= Len(buf)
  /\ LET sl == Slice(buf, bytes_read) IN
     \E o \in Outcomes(Cur, sl.len) :
       LET w == IF o.t = "ok" THEN Copied(Cur, sl.len, o.n) ELSE 0
           m == FillMatch(o, bytes_read)
       IN /\ buf' = WriteAt(buf, sl.at, Cur, w)
          /\ SetCur([Cur EXCEPT !.pos = @ + w])
          /\ log' = Append(log, [acc |-> bytes_read, at |-> sl.at, len |-> sl.len,
                                 t |-> o.t, n |-> o.n, e |-> o.e])
          /\ bytes_read' = m.br
          /\ pc' = m.go
          /\ res' = m.r
          /\ fatalLeft' = IF o.e \in FatalKinds THEN fatalLeft - 1 ELSE fatalLeft
  /\ UNCHANGED <<op, sizeArg, pos0, items, crPos0>>

\* `buf[bytes_read..]` with bytes_read beyond the buffer: the slice index
\* is out of range and the call panics.
SlicePanic ==
  /\ pc = "loop"
  /\ bytes_read > Len(buf)
  /\ pc' = "panic"
  /\ UNCHANGED <<stream, cr, op, sizeArg, buf, bytes_read, res, log, pos0,
                 items, crPos0, fatalLeft>>

\* fill returns to the owner of the stream.
FillDone ==
  /\ pc = "ret"
  /\ op = "fill"
  /\ pc' = "idle"
  /\ UNCHANGED <<stream, cr, op, sizeArg, buf, bytes_read, res, log, pos0,
                 items, crPos0, fatalLeft>>

\* ------------------------------------------------------- ChunkedReader
\* buf, bytes_read, res, log and pos0 describe the latest call of fill; they
\* are cleared when the stream changes hands.
ForgetCall ==
  /\ buf' = <<>>
  /\ bytes_read' = 0
  /\ res' = <<>>
  /\ log' = <<>>
  /\ pos0' = 0

\* Variant: the assertion is left out.
SizeAny(size) == TRUE

\* `assert!(size != 0)`
SizeOk(size) == size # 0

\* Chunk::chunked: consumes the stream; panics on a zero size.
Chunked ==
  /\ pc = "idle"
  /\ stream # <<>>
  /\ \E size \in 0..MaxSize :
       /\ sizeArg' = size
       /\ IF SizeOk(size)
            THEN /\ cr' = <<[read |-> stream[1], size |-> size]>>
                 /\ pc' = "idle"
                 /\ crPos0' = stream[1].pos
            ELSE /\ cr' = <<>>
                 /\ pc' = "panic"
                 /\ crPos0' = crPos0
  /\ stream' = <<>>
  /\ op' = "chunked"
  /\ items' = <<>>
  /\ ForgetCall
  /\ UNCHANGED fatalLeft

\* Variant: the buffer has room for one byte more than the chunk size.
NewBufAhead(size) == Zeros(size + 1)

\* `vec![0_u8; self.size]`
NewBuf(size) == Zeros(size)

\* ChunkedReader::next, up to the call of fill.
NextCall ==
  /\ pc = "idle"
  /\ cr # <<>>
  /\ Len(items) < MaxAdvances
  /\ buf' = NewBuf(cr[1].size)
  /\ bytes_read' = 0
  /\ pc' = "loop"
  /\ op' = "next"
  /\ res' = <<>>
  /\ log' = <<>>
  /\ pos0' = cr[1].read.pos
  /\ UNCHANGED <<stream, cr, sizeArg, items, crPos0, fatalLeft>>

\* Variant: the buffer is yielded at its full capacity.
NoTruncate(b, l) == b

\* `Vec::truncate`: no effect when l is not below the current length.
Truncate(b, l) == IF l < Len(b) THEN SubSeq(b, 1, l) ELSE b

\* Variant: a fill of 0 bytes is yielded as an empty chunk.
NextMatchEmptyChunk(r, b) ==
  IF ~r.ok THEN [k |-> "err", bytes |-> <<>>, e |-> r.e]
  ELSE [k |-> "chunk", bytes |-> Truncate(b, r.n), e |-> "none"]

\* Variant: the chunk is cut one byte short of the count.
NextMatchCutShort(r, b) ==
  IF ~r.ok THEN [k |-> "err", bytes |-> <<>>, e |-> r.e]
  ELSE IF r.n = 0 THEN [k |-> "none", bytes |-> <<>>, e |-> "none"]
  ELSE [k |-> "chunk", bytes |-> Truncate(b, r.n - 1), e |-> "none"]

\* Variant: an error of fill ends the sequence instead of being yielded.
NextMatchErrEnds(r, b) ==
  IF ~r.ok THEN [k |-> "none", bytes |-> <<>>, e |-> "none"]
  ELSE IF r.n = 0 THEN [k |-> "none", bytes |-> <<>>, e |-> "none"]
  ELSE [k |-> "chunk", bytes |-> Truncate(b, r.n), e |-> "none"]

\* Variant: once an error was yielded every advance reports end-of-sequence.
NextMatchFused(r, b) ==
  IF \E i \in 1..Len(items) : items[i].k = "err"
    THEN [k |-> "none", bytes |-> <<>>, e |-> "none"]
  ELSE IF ~r.ok THEN [k |-> "err", bytes |-> <<>>, e |-> r.e]
  ELSE IF r.n = 0 THEN [k |-> "none", bytes |-> <<>>, e |-> "none"]
  ELSE [k |-> "chunk", bytes |-> Truncate(b, r.n), e |-> "none"]

\* The match of next on the result of fill: the element the advance returns.
NextMatch(r, b) ==
  IF ~r.ok THEN [k |-> "err", bytes |-> <<>>, e |-> r.e]
  ELSE IF r.n = 0 THEN [k |-> "none", bytes |-> <<>>, e |-> "none"]
  ELSE [k |-> "chunk", bytes |-> Truncate(b, r.n), e |-> "none"]

\* ChunkedReader::next, from the return of fill on.
NextReturn ==
  /\ pc = "ret"
  /\ op = "next"
  /\ LET it == NextMatch(res[1], buf) IN
       \* recorded with the element: where the stream stood when the advance
       \* began and how many bytes its fill had accumulated
       /\ items' = Append(items, [k |-> it.k, bytes |-> it.bytes, e |-> it.e,
                                  at |-> pos0, used |-> bytes_read])
       /\ buf' = IF it.k = "chunk" THEN it.bytes ELSE buf
  /\ pc' = "idle"
  /\ UNCHANGED <<stream, cr, op, sizeArg, bytes_read, res, log, pos0, crPos0,
                 fatalLeft>>

\* `self.read`
InnerOf(c) == c.read

\* ChunkedReader::into_inner: consumes the ChunkedReader.
IntoInner ==
  /\ pc = "idle"
  /\ cr # <<>>
  /\ stream' = <<InnerOf(cr[1])>>
  /\ cr' = <<>>
  /\ op' = "into_inner"
  /\ ForgetCall
  /\ UNCHANGED <<pc, sizeArg, items, crPos0, fatalLeft>>

\* ------------------------------------------------------------------ spec
Init ==
  /\ \E n \in 0..MaxN, st \in BOOLEAN :
       stream = <<[data |-> Content(n), pos |-> 0, stuck |-> st]>>
  /\ cr = <<>>
  /\ pc = "idle"
  /\ op = "none"
  /\ sizeArg = 0
  /\ buf = <<>>
  /\ bytes_read = 0
  /\ res = <<>>
  /\ log = <<>>
  /\ pos0 = 0
  /\ items = <<>>
  /\ crPos0 = 0
  /\ fatalLeft = MaxFatal

Next ==
  \/ FillCall
  \/ ReadStep
  \/ SlicePanic
  \/ FillDone
  \/ Chunked
  \/ NextCall
  \/ NextReturn
  \/ IntoInner

Spec == Init /\ [][Next]_vars

\* fill is a plain loop on the calling thread: once called it keeps taking
\* its next step (a read that returns, the slice panic, the return).
FairSpec ==
  Spec /\ WF_vars(ReadStep) /\ WF_vars(SlicePanic) /\ WF_vars(FillDone)
       /\ WF_vars(NextReturn)

\* The same, with a caller that keeps advancing the ChunkedReader it holds.
AdvancingSpec == FairSpec /\ WF_vars(NextCall)

\* ======================================================= properties
\* Helpers over the record of the latest fill call.
InCall == op \in {"fill", "next"}
\* No read of the call reported more bytes than the slice it was handed.
\* (A read that does leaves bytes_read beyond the buffer, and the next
\* evaluation of the slice panics: no call or advance follows it.)
Honest == \A i \in 1..Len(log) : log[i].n <= log[i].len
ErrorFree == \A i \in 1..Len(log) : log[i].t = "ok"
NoFatal == \A i \in 1..Len(log) : log[i].e \notin FatalKinds
Avail0 == Len(Cur.data) - pos0          \* bytes the stream held at the call
Ok(n) == <<[ok |-> TRUE, n |-> n, e |-> "none"]>>
Err(k) == <<[ok |-> FALSE, n |-> 0, e |-> k]>>
Positive(i) == log[i].t = "ok" /\ log[i].n > 0

\* Helpers over the record of the advances of the latest ChunkedReader.
Chunks == SelectSeq(items, LAMBDA it : it.k = "chunk")
NoErrItem == \A i \in 1..Len(items) : items[i].k # "err"
RECURSIVE Concat(_)
Concat(ss) == IF ss = <<>> THEN <<>> ELSE Head(ss).bytes \o Concat(Tail(ss))
CeilDiv(n, d) == (n + d - 1) \div d
\* The stream of the latest ChunkedReader, also after into_inner.
CrStream == IF cr # <<>> THEN cr[1].read ELSE stream[1]
CrIdle == pc = "idle" /\ op \in {"next", "into_inner"}

\* C1: with a stream of N bytes within the read contract and no fatal error, the
\* advances yield chunks of exactly S bytes except a last one of N mod S
\* bytes, whose concatenation is the content consumed so far; once an
\* advance reports end-of-sequence exactly ceil(N / S) chunks were yielded,
\* they make up the whole stream, and only end-of-sequence follows.
C1_Chunking ==
  (CrIdle /\ Honest /\ NoErrItem) =>
    LET S == sizeArg
        N == Len(CrStream.data) - crPos0
        c == Chunks
    IN /\ Concat(c) = SubSeq(CrStream.data, crPos0 + 1, CrStream.pos)
       /\ Len(c) <= CeilDiv(N, S)
       /\ \A i \in 1..Len(c) :
            \/ Len(c[i].bytes) = S
            \/ /\ i = Len(c) /\ i = CeilDiv(N, S)
               /\ Len(c[i].bytes) = N % S
               /\ Len(c[i].bytes) > 0
       /\ \A i \in 1..Len(items) :
            items[i].k = "none" =>
              /\ i > Len(c)
              /\ Len(c) = CeilDiv(N, S)
              /\ Concat(c) = SubSeq(CrStream.data, crPos0 + 1, Len(CrStream.data))

C1_Witness ==
  /\ CrIdle /\ op = "next" /\ Honest /\ sizeArg = 2 /\ crPos0 = 0
  /\ Len(items) = 3
  /\ items[1].bytes = <<1, 2>> /\ items[2].bytes = <<3>> /\ items[3].k = "none"

\* C2: with an error-free contract-respecting stream holding at least L
\* bytes, fill returns L, the buffer holds the stream's first L bytes in
\* order, and exactly L bytes were consumed, whatever the sizes of the
\* single reads.
C2_FillFull ==
  (pc = "ret" /\ Honest /\ ErrorFree /\ Avail0 >= Len(buf)) =>
     /\ res = Ok(Len(buf))
     /\ buf = SubSeq(Cur.data, pos0 + 1, pos0 + Len(buf))
     /\ Cur.pos = pos0 + Len(buf)

C2_Witness ==
  /\ pc = "ret" /\ op = "fill" /\ Honest /\ ErrorFree
  /\ Len(buf) = 3 /\ Avail0 >= 3
  /\ Len(log) = 4 /\ res = Ok(3)

\* C3: with an error-free contract-respecting stream holding K < L bytes,
\* fill returns K and the first K bytes of the buffer are the stream content.
C3_FillShort ==
  (pc = "ret" /\ Honest /\ ErrorFree /\ Avail0 < Len(buf)) =>
     /\ res = Ok(Avail0)
     /\ SubSeq(buf, 1, Avail0) = SubSeq(Cur.data, pos0 + 1, Len(Cur.data))
     /\ Cur.pos = Len(Cur.data)

C3_Witness ==
  /\ pc = "ret" /\ op = "fill" /\ Honest /\ ErrorFree
  /\ Len(buf) = 3 /\ Avail0 = 2
  /\ Len(log) = 3 /\ res = Ok(2) /\ buf = <<1, 2, 0>>

\* The safety part of C4, state by state.
C4_Inv ==
  /\ res # <<>> => res[1].e # "Interrupted"
  /\ \A i \in 1..Len(items) : items[i].e # "Interrupted"
  /\ \A i \in 1..Len(log) :
       log[i].e = "Interrupted" =>
         IF i < Len(log) THEN log[i + 1].acc = log[i].acc
         ELSE pc = "loop" /\ bytes_read = log[i].acc
  /\ (pc = "ret" /\ Honest /\ NoFatal) =>
       /\ res = Ok(Min(Len(buf), Avail0))
       /\ SubSeq(buf, 1, res[1].n) = SubSeq(Cur.data, pos0 + 1, pos0 + res[1].n)
       /\ Cur.pos = pos0 + res[1].n

\* C4: an interrupted error is never returned by fill nor yielded by an
\* advance; the read after it is issued with the accumulated count
\* unchanged; and with finitely many interrupted errors a fill on a
\* contract-respecting stream eventually returns, its result when no fatal
\* error occurs being the one of the stream without the interrupted errors:
\* min(L, available) bytes, in order.
C4_InterruptedRetried ==
  []C4_Inv /\ ((pc = "loop" /\ ~Cur.stuck) ~> (pc = "ret" \/ ~Honest))

C4_Witness ==
  /\ pc = "ret" /\ Honest /\ NoFatal
  /\ Len(log) >= 4
  /\ log[1].e = "Interrupted" /\ Positive(2) /\ log[3].e = "Interrupted"
  /\ res = Ok(Len(buf)) /\ Len(buf) >= 2

\* C5: a read that reports a fatal error is the last read of its call, and
\* fill returns exactly that error, with no byte count, whatever had been
\* accumulated.
C5_FatalReturned ==
  \A i \in 1..Len(log) :
    log[i].e \in FatalKinds =>
      /\ i = Len(log)
      /\ pc # "loop"
      /\ res = Err(log[i].e)

C5_Witness ==
  /\ pc = "ret" /\ Len(log) >= 2 /\ bytes_read >= 1
  /\ log[Len(log)].e = "ConnectionReset"
  /\ res = Err("ConnectionReset")

\* C6: a read with a positive count that fills the buffer is the last read
\* of its call (no read follows it), and the call returns Ok(buffer length).
C6_StopsWhenFull ==
  (pc \in {"loop", "ret"} /\ Honest) =>
    \A i \in 1..Len(log) :
      (Positive(i) /\ log[i].acc + log[i].n = Len(buf)) =>
        /\ i = Len(log)
        /\ pc = "ret" => res = Ok(Len(buf))

\* C7: with a contract-respecting stream the accumulated count stays within
\* 0..buffer length in every state, and so does every count returned.
C7_CountWithinBuffer ==
  Honest =>
    /\ 0 <= bytes_read /\ bytes_read <= Len(buf)
    /\ (res # <<>> /\ res[1].ok) => (0 <= res[1].n /\ res[1].n <= Len(buf))

C7_Witness ==
  /\ pc = "loop" /\ Honest /\ Len(buf) = 3 /\ bytes_read = 3 /\ Len(log) >= 2

\* C8: chunked with size 0 panics at once: no ChunkedReader exists, the
\* stream was not read, and no advance can follow; with any size > 0 it
\* returns a ChunkedReader holding the stream as it was, and that size.
C8_ChunkedStep ==
  (pc = "idle" /\ op' = "chunked" /\ stream # <<>> /\ stream' = <<>>) =>
     /\ log' = <<>>
     /\ IF sizeArg' = 0
          THEN pc' = "panic" /\ cr' = <<>>
          ELSE pc' = "idle" /\ cr' = <<[read |-> stream[1], size |-> sizeArg']>>

C8_NotDeferred ==
  /\ cr # <<>> => cr[1].size > 0
  /\ (op = "chunked" /\ sizeArg = 0) =>
       (pc = "panic" /\ ~ENABLED (NextCall \/ ReadStep))

C8_ZeroSizePanics == []C8_NotDeferred /\ [][C8_ChunkedStep]_vars

C8_Witness == op = "chunked" /\ pc = "panic" /\ sizeArg = 0 /\ cr = <<>>

\* C9: into_inner hands back the stream held by the ChunkedReader, as it
\* is, without reading; when no advance failed its position is the position
\* at construction plus the lengths of the chunks yielded.
C9_IntoInnerStep ==
  (cr # <<>> /\ cr' = <<>>) =>
     /\ stream' = <<cr[1].read>>
     /\ pc' = "idle"
     /\ NoErrItem =>
          /\ stream'[1].pos = crPos0 + Len(Concat(Chunks))
          /\ Concat(Chunks) = SubSeq(stream'[1].data, crPos0 + 1, stream'[1].pos)

C9_IntoInner == [][C9_IntoInnerStep]_vars

C9_Witness ==
  /\ op = "into_inner" /\ stream # <<>> /\ NoErrItem
  /\ Len(Chunks) = 2 /\ stream[1].pos = crPos0 + 2 /\ Remaining(stream[1]) > 0

\* C10: building a ChunkedReader reads nothing; while it holds the stream
\* the stream moves only inside the fill of an advance; an advance consumes
\* at most `size` bytes, each of its reads being handed a slice of at most
\* size minus the bytes accumulated so far in that advance.
C10_Inv ==
  (op = "next" /\ cr # <<>>) =>
     /\ cr[1].read.pos - pos0 <= cr[1].size
     /\ \A i \in 1..Len(log) : log[i].len <= cr[1].size - log[i].acc

C10_Step ==
  /\ (cr = <<>> /\ cr' # <<>>) => (cr'[1].read = stream[1] /\ log' = <<>>)
  /\ (cr # <<>> /\ cr' # <<>> /\ cr'[1].read # cr[1].read) =>
       (op = "next" /\ pc = "loop" /\ Len(log') = Len(log) + 1)

C10_Lazy == []C10_Inv /\ [][C10_Step]_vars

C10_Witness ==
  /\ op = "next" /\ pc = "idle" /\ cr # <<>> /\ cr[1].size = 2
  /\ cr[1].read.pos = pos0 + 2 /\ Remaining(cr[1].read) > 0
  /\ Len(log) = 3 /\ log[3].len = 0

\* The advance that just returned, and its element.
Advanced == op = "next" /\ pc = "idle"
LastItem == items[Len(items)]

\* C11: an advance whose fill returned 0 reports end-of-sequence and yields
\* no element; the stream's end being sticky, no later advance yields a
\* chunk: each reports end-of-sequence again, consuming nothing, unless its
\* read fails with a fatal error.
C11_EndSticks ==
  /\ (Advanced /\ res = Ok(0)) =>
       (LastItem.k = "none" /\ LastItem.bytes = <<>> /\ LastItem.used = 0)
  /\ \A i \in 1..Len(items) : \A j \in (i + 1)..Len(items) :
       items[i].k = "none" =>
         /\ items[j].k \in {"none", "err"}
         /\ items[j].used = 0
         /\ items[j].at = items[i].at
  /\ (Advanced /\ NoFatal /\ \E i \in 1..(Len(items) - 1) : items[i].k = "none")
       => LastItem.k = "none"

C11_Witness ==
  /\ Advanced /\ Len(items) = 3
  /\ items[1].k = "chunk" /\ items[2].k = "none" /\ items[3].k = "none"

\* C12: a yielded chunk has the length n that the advance's fill returned,
\* 1 <= n <= size, and holds the first n bytes of the buffer fill worked on
\* (the n bytes the stream delivered to that fill).
C12_Inv ==
  /\ \A i \in 1..Len(items) :
       items[i].k = "chunk" =>
         /\ 1 <= Len(items[i].bytes) /\ Len(items[i].bytes) <= sizeArg
         /\ Len(items[i].bytes) = items[i].used
         /\ items[i].bytes =
              SubSeq(CrStream.data, items[i].at + 1, items[i].at + items[i].used)
  /\ (Advanced /\ LastItem.k = "chunk") =>
       (res = Ok(Len(LastItem.bytes)) /\ buf = LastItem.bytes)

C12_Step ==
  (pc = "ret" /\ op = "next" /\ pc' = "idle" /\ res[1].ok /\ res[1].n > 0) =>
     /\ Len(buf) = cr[1].size
     /\ items'[Len(items')].k = "chunk"
     /\ items'[Len(items')].bytes = SubSeq(buf, 1, res[1].n)

C12_ChunkIsFilled == []C12_Inv /\ [][C12_Step]_vars

C12_Witness ==
  /\ Advanced /\ sizeArg = 3 /\ Len(items) = 1
  /\ LastItem.k = "chunk" /\ LastItem.bytes = <<1, 2>> /\ res = Ok(2)

\* C13: an advance whose fill failed with a fatal error yields exactly that
\* error: not end-of-sequence and no chunk, also when reads of the advance
\* had delivered bytes before.
C13_ErrorYielded ==
  (Advanced /\ Len(log) > 0 /\ log[Len(log)].e \in FatalKinds) =>
     /\ LastItem.k = "err"
     /\ LastItem.e = log[Len(log)].e
     /\ LastItem.bytes = <<>>
     /\ Len(Chunks) = Cardinality({i \in 1..(Len(items) - 1) : items[i].k = "chunk"})

C13_Witness ==
  /\ Advanced /\ LastItem.k = "err" /\ LastItem.e = "PermissionDenied"
  /\ LastItem.used = 2 /\ Len(log) = 3

\* C14: no retry cap.  A read reporting "interrupted" always leaves fill in
\* its loop with the accumulated count unchanged, however many came before;
\* so a fill on a stream that always reports it never returns, and a run of
\* k interrupted reads is followed by the read that carries on.
C14_Inv ==
  /\ (InCall /\ Cur.stuck) =>
       /\ pc = "loop" /\ res = <<>> /\ bytes_read = 0
       /\ \A i \in 1..Len(log) : log[i].e = "Interrupted"
  /\ (InCall /\ pc = "ret") => log[Len(log)].e # "Interrupted"

C14_Step ==
  (pc = "loop" /\ Len(log') = Len(log) + 1
     /\ log'[Len(log')].e = "Interrupted") =>
       (pc' = "loop" /\ bytes_read' = bytes_read /\ res' = <<>> /\ buf' = buf)

C14_NoRetryCap == []C14_Inv /\ [][C14_Step]_vars

C14_Witness ==
  /\ op = "fill" /\ stream[1].stuck /\ pc = "loop"
  /\ Len(log) = 4 /\ log[4].e = "Interrupted" /\ Len(buf) = 2

\* A reachable state: a run of MaxIntr interrupted reads retried to success.
C14_RetriedToSuccess ==
  /\ pc = "ret" /\ Len(log) > MaxIntr
  /\ \A i \in 1..MaxIntr : log[i].e = "Interrupted"
  /\ res = Ok(Len(buf)) /\ Len(buf) > 0

\* C15 as claimed: once an advance yielded a fill error, no later advance of
\* the same ChunkedReader yields a chunk.
C15_ErroredTerminal ==
  \A i \in 1..Len(items) : \A j \in (i + 1)..Len(items) :
    items[i].k = "err" => items[j].k # "chunk"

\* C15 as the code has it: the ChunkedReader holds the stream and the fixed
\* size and nothing else, so there is no Errored state.  Every advance,
\* also one after a yielded error, yields what its own fill returned: a
\* chunk for a positive count, the error for an error, end-of-sequence for
\* 0.  Only end-of-sequence is terminal for chunks (the end being sticky).
C15_NoErrorState ==
  /\ cr # <<>> => (DOMAIN cr[1] = {"read", "size"} /\ cr[1].size = sizeArg)
  /\ Advanced =>
       /\ LastItem.k = "chunk" <=> (res[1].ok /\ res[1].n > 0)
       /\ LastItem.k = "err" <=> ~res[1].ok
       /\ LastItem.k = "none" <=> res = Ok(0)
  /\ \A i \in 1..Len(items) : \A j \in (i + 1)..Len(items) :
       items[i].k = "none" => items[j].k # "chunk"

C15_Witness ==
  /\ Advanced /\ Len(items) = 2
  /\ items[1].k = "err" /\ items[1].used = 1
  /\ items[2].k = "chunk" /\ items[2].bytes = <<2, 3>>

\* Inside a call of fill, the buffer still at its full length.
Filling == InCall /\ pc \in {"loop", "ret", "panic"}

\* C16: every read of a fill call is handed exactly the unfilled suffix of
\* the buffer, from offset = accumulated count to the end; a read never
\* changes a position below the accumulated count; and the filled prefix
\* holds the bytes in the order the stream delivered them.
C16_Inv ==
  Filling =>
    /\ \A i \in 1..Len(log) :
         /\ log[i].at = log[i].acc
         /\ log[i].at + log[i].len = Len(buf)
         /\ i > 1 => log[i].acc =
                       log[i - 1].acc + (IF log[i - 1].t = "ok" THEN log[i - 1].n ELSE 0)
    /\ Honest =>
         SubSeq(buf, 1, bytes_read) = SubSeq(Cur.data, pos0 + 1, pos0 + bytes_read)

C16_Step ==
  (pc = "loop" /\ Len(log') = Len(log) + 1) =>
     /\ Len(buf') = Len(buf)
     /\ \A j \in 1..Min(bytes_read, Len(buf)) : buf'[j] = buf[j]

C16_UnfilledSuffix == []C16_Inv /\ [][C16_Step]_vars

C16_Witness ==
  /\ Filling /\ pc = "loop" /\ Honest /\ Len(buf) = 3 /\ Len(log) = 2
  /\ log[1].n = 1 /\ log[2].at = 1 /\ log[2].len = 2 /\ log[2].n = 1
  /\ buf = <<1, 2, 0>>

\* C17: when fill returns Ok(n) with n below the buffer length, the last
\* read of the call was handed the non-empty rest of the buffer and reported
\* zero bytes and no error; a partial read or an interrupted error alone
\* never ends the call.
C17_ShortMeansExhausted ==
  (pc = "ret" /\ res[1].ok) =>
     LET last == log[Len(log)] IN
       /\ Len(log) >= 1
       /\ last.t = "ok" /\ last.n = 0
       /\ last.acc = res[1].n
       /\ res[1].n < Len(buf) => (last.len = Len(buf) - res[1].n /\ last.len > 0
                                   /\ Remaining(Cur) = 0)
       /\ \A i \in 1..(Len(log) - 1) : ~(log[i].t = "ok" /\ log[i].n = 0)

C17_Witness ==
  /\ pc = "ret" /\ res = Ok(1) /\ Len(buf) = 3 /\ Len(log) = 4
  /\ log[1].e = "Interrupted" /\ Positive(2) /\ log[3].e = "Interrupted"
  /\ log[4].n = 0 /\ log[4].len = 2

\* Bytes accumulated by the advances that ended in an error, and the stream
\* content read by the advances that did not.
RECURSIVE LostBytes(_)
LostBytes(its) ==
  IF its = <<>> THEN 0
  ELSE (IF Head(its).k = "err" THEN Head(its).used ELSE 0) + LostBytes(Tail(its))
RECURSIVE KeptContent(_, _)
KeptContent(its, data) ==
  IF its = <<>> THEN <<>>
  ELSE (IF Head(its).k = "err" THEN <<>>
        ELSE SubSeq(data, Head(its).at + 1, Head(its).at + Head(its).used))
       \o KeptContent(Tail(its), data)

\* C18: an advance that accumulated k > 0 bytes and then failed has moved
\* the stream forward by k, and yields the error: those k bytes are in no
\* chunk.  The advances read the stream without gap, so the chunks
\* concatenate to the content consumed minus the bytes of the failed
\* advances, and the stream position (the one into_inner hands back)
\* exceeds the total chunk length by exactly those bytes.
C18_LostBytes ==
  /\ (Advanced /\ Len(log) > 0 /\ log[Len(log)].e \in FatalKinds) =>
       /\ LastItem.k = "err"
       /\ LastItem.used = log[Len(log)].acc
       /\ CrStream.pos = pos0 + LastItem.used
  /\ CrIdle =>
       /\ \A i \in 1..Len(items) :
            /\ items[i].at = (IF i = 1 THEN crPos0
                              ELSE items[i - 1].at + items[i - 1].used)
            /\ items[i].k = "err" =>
                 \A c \in 1..Len(items) : \A b \in 1..Len(items[c].bytes) :
                   ~ (items[i].at < items[c].bytes[b]
                        /\ items[c].bytes[b] <= items[i].at + items[i].used)
       /\ items # <<>> => CrStream.pos = LastItem.at + LastItem.used
       /\ Concat(Chunks) = KeptContent(items, CrStream.data)
       /\ CrStream.pos = crPos0 + Len(Concat(Chunks)) + LostBytes(items)

C18_Witness ==
  /\ op = "into_inner" /\ sizeArg = 2 /\ crPos0 = 0 /\ Len(items) = 2
  /\ items[1].k = "err" /\ items[1].used = 1
  /\ items[2].k = "chunk" /\ items[2].bytes = <<2, 3>>
  /\ stream[1].pos = 3

\* An advance has reported end-of-sequence or an error.
HasEnd == \E i \in 1..Len(items) : items[i].k \in {"none", "err"}
OkReads == Cardinality({i \in 1..Len(log) : log[i].t = "ok"})

\* C19: on a stream within the read contract that does not report
\* "interrupted" for ever, a fill makes at most buffer length + 1 reads that
\* are not interrupted, and returns; and a ChunkedReader that keeps being
\* advanced reaches end-of-sequence or an error.
C19_Inv ==
  (Filling /\ Honest) =>
     /\ OkReads <= Len(buf) + 1
     /\ Len(log) <= Len(buf) + 1 + Interrupts
     /\ pc = "loop" => OkReads <= Len(buf)

C19_Terminates ==
  /\ []C19_Inv
  /\ (pc = "loop" /\ ~Cur.stuck) ~> (pc = "ret" \/ ~Honest)
  /\ (cr # <<>> /\ ~cr[1].read.stuck) ~> (cr = <<>> \/ pc = "panic" \/ HasEnd)

C19_Witness ==
  /\ Advanced /\ sizeArg = 1 /\ crPos0 = 0 /\ Len(items) = 4
  /\ items[3].k = "chunk" /\ items[4].k = "none"
  /\ Len(log) = 2 /\ log[1].e = "Interrupted"

\* C20: fill never returns without having made a read, also on a buffer of
\* length 0: there every read is handed an empty slice and consumes
\* nothing, fill returns Ok(0) when a read reports zero, and it returns the
\* error when a read reports a fatal one.
C20_AtLeastOneRead ==
  /\ (InCall /\ pc = "ret") => Len(log) >= 1
  /\ (Filling /\ Len(buf) = 0) =>
       /\ \A i \in 1..Len(log) : log[i].len = 0 /\ log[i].at = 0
       /\ Cur.pos = pos0
       /\ (pc = "ret" /\ log[Len(log)].t = "ok") => res = Ok(0)
       /\ (pc = "ret" /\ log[Len(log)].t = "err") => res = Err(log[Len(log)].e)
       /\ (pc = "ret") => (res = Ok(0) \/ log[Len(log)].e \in FatalKinds)

C20_Witness ==
  /\ op = "fill" /\ pc = "ret" /\ Len(buf) = 0 /\ Remaining(stream[1]) = 2
  /\ Len(log) = 2 /\ log[1].e = "Interrupted"
  /\ res = Err("PermissionDenied")

\* A stream that breaks the read contract drives the count past the buffer.
C7_ContractNeeded == ~ (InCall /\ ~Honest /\ bytes_read > Len(buf))

====
